---- MODULE Spec2Model ----
(***************************************************************************)
(* Model of the queued AWG server (awg_raw_tcp): the two play lists, the   *)
(* preload protocol handler, the periodic player, the notifier and the     *)
(* startup / reset / shutdown safety sequences.                            *)
(*                                                                         *)
(* Threads: main (start_queue_server, then stop_queue_server), the queue   *)
(* accept thread that serves one client inline, the player thread and the  *)
(* notifier accept thread.  A step of the model is a region of code that   *)
(* runs under one lock; G.mtx is the variable mtx, and a region that       *)
(* starts with pthread_mutex_lock(&G.mtx) is enabled only when mtx is      *)
(* free.  A region that only touches the store and the region that follows *)
(* it in the same thread are one step where every step of another thread   *)
(* that could come between them commutes with one of the two (the wait     *)
(* loops of main and of do_reset have guards that stay true once true and  *)
(* are part of the step that follows them).                                *)
(*                                                                         *)
(* Allocation is assumed to succeed (calloc / realloc never return NULL).  *)
(***************************************************************************)
EXTENDS Integers, Sequences, FiniteSets, TLC

\* ---------------------------------------------------------------- bounds
\* Largest total_frames a client BEGIN carries in the model.
MaxFrames == 2
\* Number of opcodes the preload clients send in one run.
MaxCmds == 3
\* The same, in the runs that have a notification subscriber.
MaxCmdsNotify == 2
\* The same, in the runs that have a direct-server client.
MaxCmdsDirect == 2
\* Length of the silence lists (stands for SHUTDOWN_FLUSH_FRAMES = 100).
FlushFrames == 2

\* ------------------------------------------------------ program constants
MAX_WORDS_PER_FRAME == 64
GROW_WORDS_STEP == 4096
MAX_TOTAL_FRAMES == 2000000

Lists == {0, 1}

\* enum list_status as queue.c uses it
LIST_IDLE == "IDLE"
LIST_LOADING == "LOADING"
LIST_READY == "READY"
UNKNOWN == "UNKNOWN"

\* ------------------------------------------------------------ word codec
\* A packer with ch and tone swapped: tone in bits 27:25, ch in bit 24
PACK_WORD_SelSwapped(cmd, ch, tone, data20) ==
    << (cmd % 16) * 16 + (tone % 8) * 2 + (ch % 2),
       (data20 \div 65536) % 16,
       (data20 \div 256) % 256,
       data20 % 256 >>

\* A uint32_t is the tuple of its four bytes, most significant first.
\* PACK_WORD: cmd in bits 31:28, ch in bit 27, tone in bits 26:24, the low
\* 20 bits of data20 in bits 19:0.
PACK_WORD(cmd, ch, tone, data20) ==
    << (cmd % 16) * 16 + (ch % 2) * 8 + (tone % 8),
       (data20 \div 65536) % 16,
       (data20 \div 256) % 256,
       data20 % 256 >>

MAKE_INDEX_WORD(ch, tone, idx20) == PACK_WORD(1, ch, tone, idx20)
MAKE_GAIN_WORD(ch, tone, g20) == PACK_WORD(2, ch, tone, g20)
MAKE_COMMIT_WORD == PACK_WORD(15, 0, 0, 0)

\* Bitwise or of two naturals, and of two words byte by byte
RECURSIVE BitOr(_, _)
BitOr(a, b) ==
    IF a = 0 THEN b
    ELSE IF b = 0 THEN a
    ELSE (IF a % 2 = 1 \/ b % 2 = 1 THEN 1 ELSE 0) + 2 * BitOr(a \div 2, b \div 2)

Or32(x, y) == [k \in 1..4 |-> BitOr(x[k], y[k])]

\* (uint32_t)n << 28 for a nibble n, and v & 0xFFFFF, as words
Shl28(n) == <<(n % 16) * 16, 0, 0, 0>>
Low20(v) == <<0, (v \div 65536) % 16, (v \div 256) % 256, v % 256>>

\* awg_core_mmap.c: ((ch & 1) << 27) | ((tone & 7) << 24)
pack_sel(ch, tone) == Or32(<<(ch % 2) * 8, 0, 0, 0>>, <<tone % 8, 0, 0, 0>>)
make_index_word(ch, tone, idx20) == Or32(Or32(Shl28(1), pack_sel(ch, tone)), Low20(idx20))
make_gain_word(ch, tone, g20) == Or32(Or32(Shl28(2), pack_sel(ch, tone)), Low20(g20))
make_commit_word == Shl28(15)

\* test_awg_single_channel_v1.c: its own copies of the packers
test_pack_sel(ch, tone) == Or32(<<(ch % 2) * 8, 0, 0, 0>>, <<tone % 8, 0, 0, 0>>)
test_make_index_word(ch, tone, idx20) ==
    Or32(Or32(Shl28(1), test_pack_sel(ch, tone)), Low20(idx20))
test_make_gain_word(ch, tone, g20) ==
    Or32(Or32(Shl28(2), test_pack_sel(ch, tone)), Low20(g20))
test_make_commit_word == Shl28(15)

\* The fields of a word as the header comment of awg_core_mmap.c lays them
\* out: [31:28] cmd, [27] ch, [26:24] tone, [23:20] reserved, [19:0] payload
WordCmd(w) == w[1] \div 16
WordCh(w) == (w[1] \div 8) % 2
WordTone(w) == w[1] % 8
WordReserved(w) == w[2] \div 16
WordPayload(w) == (w[2] % 16) * 65536 + w[3] * 256 + w[4]

\* The initializer of ZERO_GAIN_FRAME: for each channel and tone an INDEX
\* word and a GAIN word, then one COMMIT.
ZERO_GAIN_FRAME ==
    [k \in 1..33 |->
        IF k = 33 THEN MAKE_COMMIT_WORD
        ELSE LET p == (k - 1) \div 2
                 ch == p \div 8
                 tone == p % 8
             IN IF (k - 1) % 2 = 0 THEN MAKE_INDEX_WORD(ch, tone, 0)
                                   ELSE MAKE_GAIN_WORD(ch, tone, 0)]

ZERO_GAIN_FRAME_COUNT == Len(ZERO_GAIN_FRAME)

\* awg_core_mmap.c, awg_zero_output: the words[16 + 1] array it builds and
\* hands to awg_send_words32: (0x2 << 28) | (ch & 1) << 27 | (tone & 7) << 24
\* for ch = 0, 1 and tone = 0..7, then 0xF << 28.
awg_zero_output_words ==
    [k \in 1..17 |->
        IF k = 17 THEN <<15 * 16, 0, 0, 0>>
        ELSE LET ch == (k - 1) \div 8
                 tone == (k - 1) % 8
             IN <<2 * 16 + (ch % 2) * 8 + (tone % 8), 0, 0, 0>>]

\* memcpy of received bytes into an integer on the little-endian host: the
\* first byte in memory is the least significant.
LoadU32(b) == <<b[4], b[3], b[2], b[1]>>
LoadU16(b) == <<b[2], b[1]>>
\* ntohl / ntohs: byte swap
be32_to_host(x) == <<x[4], x[3], x[2], x[1]>>
be16_to_host(x) == <<x[2], x[1]>>
\* Numeric value of an integer given by its bytes
U32(x) == x[1] * 16777216 + x[2] * 65536 + x[3] * 256 + x[4]
U16(x) == x[1] * 256 + x[2]

\* --------------------------------------------------------- playlist store
\* awg_list_t.  meta is "offsets and counts are non-null"; words is the
\* used part of the word buffer, which is non-null iff words_cap > 0.
EmptyList ==
    [meta |-> FALSE, offsets |-> <<>>, counts |-> <<>>, total_frames |-> 0,
     loaded_frames |-> 0, ready |-> FALSE, words |-> <<>>, words_cap |-> 0,
     words_used |-> 0]

clear_list_fully(L) == EmptyList

prepare_list_for_preload(L, total_frames) ==
    [clear_list_fully(L) EXCEPT
        !.meta = TRUE,
        !.offsets = [i \in 1..total_frames |-> 0],
        !.counts = [i \in 1..total_frames |-> 0],
        !.total_frames = total_frames]

RECURSIVE GrowCap(_, _)
GrowCap(cap, want) == IF cap < want THEN GrowCap(cap + GROW_WORDS_STEP, want) ELSE cap

\* ensure_words_cap that never grows the word buffer
ensure_words_cap_NoGrow(L, need_more) == L

\* ensure_words_cap: the list with room for need_more further words
ensure_words_cap(L, need_more) ==
    IF L.words_used + need_more <= L.words_cap THEN L
    ELSE [L EXCEPT !.words_cap =
            GrowCap(IF L.words_cap # 0 THEN L.words_cap ELSE GROW_WORDS_STEP,
                    L.words_used + need_more)]

\* push_frame without the test of line 233: a full list accepts a frame
push_frame_ok_NoFullTest(L, w, count) ==
    /\ L.meta
    /\ count # 0
    /\ count <= MAX_WORDS_PER_FRAME

\* push_frame's return value
push_frame_ok(L, w, count) ==
    /\ L.meta
    /\ L.loaded_frames < L.total_frames
    /\ count # 0
    /\ count <= MAX_WORDS_PER_FRAME

\* push_frame's effect on the list when it returns true
push_frame(L, w, count) ==
    LET G1 == ensure_words_cap(L, count)
        off == G1.words_used
    IN [G1 EXCEPT
          !.words = G1.words \o SubSeq(w, 1, count),
          !.words_used = G1.words_used + count,
          !.offsets[G1.loaded_frames + 1] = off,
          !.counts[G1.loaded_frames + 1] = count,
          !.loaded_frames = G1.loaded_frames + 1]

RECURSIVE PushZero(_, _)
PushZero(L, n) ==
    IF n = 0 THEN L
    ELSE PushZero(push_frame(L, ZERO_GAIN_FRAME, ZERO_GAIN_FRAME_COUNT), n - 1)

load_zero_gain_list(L, num_frames) ==
    [PushZero(prepare_list_for_preload(L, num_frames), num_frames) EXCEPT !.ready = TRUE]

\* The words of frame i (0-based) as the player reads them
FrameWords(L, i) == SubSeq(L.words, L.offsets[i + 1] + 1, L.offsets[i + 1] + L.counts[i + 1])


\* ------------------------------------------------------------------ state
VARIABLES
    list,                  \* G.list[2]
    playing,               \* G.playing
    cur_list,              \* G.cur_list
    cur_frame,             \* G.cur_frame
    next_list,             \* G.next_list
    mtx,                   \* holder of G.mtx: "free" or "client"
    g_stop_queue,
    g_listen_queue,        \* TRUE when the queue listening socket exists
    g_active_client_fd,    \* TRUE when a preload connection is open
    g_loading_in_progress,
    g_list_status,
    g_notify_fd,           \* TRUE when a subscriber socket is held
    last_sent,             \* per-list value last sent to the subscriber
    main,                  \* position of the main thread
    cli,                   \* queue accept/service thread: position and locals
    pl,                    \* player thread: position and locals
    npc,                   \* notifier accept thread: position
    subAlive,              \* the subscriber's end of the socket is still open
    mmio,                  \* words awg_send_words32 wrote in the current tick
    dir,                   \* position of a direct-server client thread
    nopen,                 \* subscriber sockets the notifier holds open
    drv,                   \* one call of awg_send_words32 followed step by step
    codec,                 \* a word under the three word packers
    lk,                    \* the two mutexes: each thread's lock calls and what it holds
    budget,                \* opcodes the clients may still send
    pushed,                \* frames the client pushed to each list since BEGIN
    clean,                 \* list became READY by its last PUSH, untouched since
    nsent,                 \* frames picked from each list while it is clean
    silenced,              \* a whole silence frame reached the MMIO since RESET began
    primeCount             \* silence frames dispatched in the startup or shutdown sequence

storeVars == <<list, playing, cur_list, cur_frame, next_list>>
notifVars == <<g_notify_fd, last_sent, subAlive>>
ghostVars == <<pushed, clean, nsent>>
vars == <<list, playing, cur_list, cur_frame, next_list, mtx, g_stop_queue,
          g_listen_queue, g_active_client_fd, g_loading_in_progress,
          g_list_status, g_notify_fd, last_sent, main, cli, pl, npc, subAlive,
          mmio, dir, nopen, drv, codec, lk, budget, pushed, clean, nsent,
          silenced, primeCount>>

\* What a read through a dangling pointer may deliver instead of the frame
Garbage == << <<-1>> >>

\* No call of awg_send_words32 is being followed
DrvIdle ==
    [pc |-> "idle", init |-> TRUE, null |-> FALSE, words |-> <<>>, count |-> 0,
     i |-> 0, data |-> <<>>, wen0 |-> 0, wen |-> 0, off |-> 0, log |-> <<>>,
     rc |-> 0]

\* The threads that take G.mtx or g_notify_mutex
LockThreads == {"player", "client", "notify", "main"}

\* No thread is inside a function that locks; main is about to prime
LkIdle ==
    [prog |-> [t \in LockThreads |-> <<>>], at |-> [t \in LockThreads |-> 0],
     held |-> [t \in LockThreads |-> <<>>], phase |-> "start", ran |-> FALSE]

\* No word is under the packers
CodecIdle ==
    [pc |-> "idle", cmd |-> 0, ch |-> 0, tone |-> 0, data20 |-> 0,
     q |-> <<>>, c |-> <<>>, t |-> <<>>]

PlIdle(pc) == [pc |-> pc, fin |-> 0, cl |-> 0, src |-> 0, idx |-> 0, w |-> <<>>,
               dangling |-> FALSE]
\* op keeps the opcode whose handler returned false on the way to the drop
\* label ("" otherwise).
CliIdle(pc) ==
    [pc |-> pc, id |-> 0, madeReady |-> FALSE, poweroff |-> FALSE, op |-> ""]

\* State after init_lists() and start_player_if_needed() in
\* start_queue_server; the notify server is already listening.
InitWith(n) ==
    /\ list = [i \in Lists |-> EmptyList]
    /\ playing = FALSE
    /\ cur_list = 0
    /\ cur_frame = 0
    /\ next_list = 1
    /\ mtx = "free"
    /\ g_stop_queue = FALSE
    /\ g_listen_queue = FALSE
    /\ g_active_client_fd = FALSE
    /\ g_loading_in_progress = [i \in Lists |-> FALSE]
    /\ g_list_status = [i \in Lists |-> LIST_IDLE]
    /\ g_notify_fd = FALSE
    /\ last_sent = [i \in Lists |-> UNKNOWN]
    /\ main = "prime0"
    /\ cli = CliIdle("off")
    /\ pl = PlIdle("sleeping")
    /\ npc = "accept"
    /\ subAlive = FALSE
    /\ mmio = <<>>
    /\ dir = "off"
    /\ nopen = 0
    /\ drv = DrvIdle
    /\ codec = CodecIdle
    /\ lk = LkIdle
    /\ budget = n
    /\ pushed = [i \in Lists |-> <<>>]
    /\ clean = [i \in Lists |-> FALSE]
    /\ nsent = [i \in Lists |-> 0]
    /\ silenced = FALSE
    /\ primeCount = 0

Init == InitWith(MaxCmds)
InitNotify == InitWith(MaxCmdsNotify)
InitDirect == InitWith(MaxCmdsDirect)

\* -------------------------------------------------------------- notifier
\* send_status_update(list_id): edge-triggered emission of the list's
\* current status to the subscriber ("LIST<id>:<STATE>"); the line goes out
\* exactly when last_sent[id] changes to the status.  A failed send closes
\* the socket.
\* send_status_update that caches the status although the send failed
send_status_update_CachesOnFailure(id) ==
    IF g_notify_fd /\ g_list_status[id] # last_sent[id]
    THEN /\ last_sent' = [last_sent EXCEPT ![id] = g_list_status[id]]
         /\ g_notify_fd' = (g_notify_fd /\ subAlive)
         /\ nopen' = IF subAlive THEN nopen ELSE nopen - 1
    ELSE UNCHANGED <<g_notify_fd, last_sent, nopen>>

send_status_update(id) ==
    IF g_notify_fd /\ g_list_status[id] # last_sent[id]
    THEN IF subAlive
         THEN /\ last_sent' = [last_sent EXCEPT ![id] = g_list_status[id]]
              /\ g_notify_fd' = g_notify_fd
              /\ nopen' = nopen
         ELSE /\ g_notify_fd' = FALSE
              /\ nopen' = nopen - 1
              /\ last_sent' = last_sent
    ELSE UNCHANGED <<g_notify_fd, last_sent, nopen>>

\* ------------------------------------------------------- ghost bookkeeping
\* The player's pointer into list i dangles once that list's buffer is freed
\* or moved while awg_send_words32 has not yet returned.
Dangle(S) ==
    IF pl.pc = "send" /\ pl.src \in S /\ list[pl.src].words_cap > 0
    THEN [pl EXCEPT !.dangling = TRUE]
    ELSE pl

GhostClear(S) ==
    /\ pushed' = [i \in Lists |-> IF i \in S THEN <<>> ELSE pushed[i]]
    /\ clean' = [i \in Lists |-> IF i \in S THEN FALSE ELSE clean[i]]
    /\ nsent' = [i \in Lists |-> IF i \in S THEN 0 ELSE nsent[i]]

StartPcs == {"prime0", "prime1", "listen"}
FlushPcs == {"flush1", "join_player"}
ResetPcs == {"r_load0", "r_load1", "r_final", "r_set", "r_send0", "r_send1"}

\* ---------------------------------------------------------- player thread
\* Line 273, while (!g_stop_queue): where the thread goes after a tick
PlayerLoopPc == IF g_stop_queue THEN "exited" ELSE "sleeping"

\* awg_send_words32 has returned: back to the top of the loop
PlayerLoop ==
    /\ pl.pc = "top"
    /\ pl' = PlIdle(PlayerLoopPc)
    /\ mmio' = <<>>
    /\ UNCHANGED <<nopen, dir, drv, codec, lk, storeVars, mtx, g_stop_queue, g_listen_queue,
                   g_active_client_fd, g_loading_in_progress, g_list_status,
                   notifVars, main, cli, npc, budget, ghostVars, silenced,
                   primeCount>>

\* Line 290: the test for the end of the current list
PlayerExhausted ==
    \/ ~list[cur_list].ready
    \/ cur_frame >= list[cur_list].total_frames

\* Line 294
PlayerCanSwitch == list[next_list].ready /\ list[next_list].total_frames > 0

\* Line 329: the test before a frame of list c is picked
PlayerHasFrame(c) == playing /\ list[c].loaded_frames > cur_frame

\* Lines 330-334: the player's locals once it has picked frame cur_frame of c
PlayerPicked(c) ==
    [pc |-> "send", fin |-> 0, cl |-> 0, src |-> c, idx |-> cur_frame,
     w |-> FrameWords(list[c], cur_frame), dangling |-> FALSE]

\* Lines 282-287: the tick finds playing false.
PlayerTickIdle ==
    /\ pl.pc = "sleeping" /\ mtx = "free"
    /\ ~playing
    /\ pl' = PlIdle(PlayerLoopPc)
    /\ UNCHANGED <<nopen, dir, drv, codec, lk, storeVars, mtx, g_stop_queue, g_listen_queue,
                   g_active_client_fd, g_loading_in_progress, g_list_status,
                   notifVars, main, cli, npc, budget, mmio, ghostVars,
                   silenced, primeCount>>

\* Lines 289, 329-338: the current list is not at its end.
PlayerTickFrame ==
    /\ pl.pc = "sleeping" /\ mtx = "free"
    /\ playing /\ ~PlayerExhausted
    /\ IF PlayerHasFrame(cur_list)
       THEN /\ cur_frame' = cur_frame + 1
            /\ pl' = PlayerPicked(cur_list)
            /\ nsent' = [nsent EXCEPT ![cur_list] = IF clean[cur_list] THEN @ + 1 ELSE @]
       ELSE /\ cur_frame' = cur_frame
            /\ pl' = PlIdle(PlayerLoopPc)
            /\ nsent' = nsent
    /\ UNCHANGED <<nopen, dir, drv, codec, lk, list, playing, cur_list, next_list, mtx, g_stop_queue,
                   g_listen_queue, g_active_client_fd, g_loading_in_progress,
                   g_list_status, notifVars, main, cli, npc, budget, mmio,
                   pushed, clean, silenced, primeCount>>

\* A switch that stores cur_list and leaves next_list as it was
PlayerTickSwitch_KeepsNext ==
    /\ pl.pc = "sleeping" /\ mtx = "free"
    /\ playing /\ PlayerExhausted /\ PlayerCanSwitch
    /\ cur_list' = next_list
    /\ next_list' = next_list
    /\ cur_frame' = 0
    /\ list' = [list EXCEPT ![cur_list] = clear_list_fully(@)]
    /\ pl' = [PlIdle("sw_set") EXCEPT !.fin = cur_list, !.cl = next_list]
    /\ GhostClear({cur_list})
    /\ UNCHANGED <<nopen, dir, drv, codec, lk, playing, mtx, g_stop_queue, g_listen_queue,
                   g_active_client_fd, g_loading_in_progress, g_list_status,
                   notifVars, main, cli, npc, budget, mmio, silenced,
                   primeCount>>

\* Lines 290-301, 316-317: end of the current list, the other one is ready:
\* swap, free the old list, unlock.
PlayerTickSwitch ==
    /\ pl.pc = "sleeping" /\ mtx = "free"
    /\ playing /\ PlayerExhausted /\ PlayerCanSwitch
    /\ cur_list' = next_list
    /\ next_list' = cur_list
    /\ cur_frame' = 0
    /\ list' = [list EXCEPT ![cur_list] = clear_list_fully(@)]
    /\ pl' = [PlIdle("sw_set") EXCEPT !.fin = cur_list, !.cl = next_list]
    /\ GhostClear({cur_list})
    /\ UNCHANGED <<nopen, dir, drv, codec, lk, playing, mtx, g_stop_queue, g_listen_queue,
                   g_active_client_fd, g_loading_in_progress, g_list_status,
                   notifVars, main, cli, npc, budget, mmio, silenced,
                   primeCount>>

\* A stop that leaves the finished list allocated
PlayerTickStop_KeepsList ==
    /\ pl.pc = "sleeping" /\ mtx = "free"
    /\ playing /\ PlayerExhausted /\ ~PlayerCanSwitch
    /\ playing' = FALSE
    /\ list' = list
    /\ pl' = [PlIdle("stop_set") EXCEPT !.fin = cur_list]
    /\ GhostClear({cur_list})
    /\ UNCHANGED <<nopen, dir, drv, codec, lk, cur_list, cur_frame, next_list, mtx, g_stop_queue,
                   g_listen_queue, g_active_client_fd, g_loading_in_progress,
                   g_list_status, notifVars, main, cli, npc, budget, mmio,
                   silenced, primeCount>>

\* Lines 302-306: end of the current list, nothing to switch to: stop.
PlayerTickStop ==
    /\ pl.pc = "sleeping" /\ mtx = "free"
    /\ playing /\ PlayerExhausted /\ ~PlayerCanSwitch
    /\ playing' = FALSE
    /\ list' = [list EXCEPT ![cur_list] = clear_list_fully(@)]
    /\ pl' = [PlIdle("stop_set") EXCEPT !.fin = cur_list]
    /\ GhostClear({cur_list})
    /\ UNCHANGED <<nopen, dir, drv, codec, lk, cur_list, cur_frame, next_list, mtx, g_stop_queue,
                   g_listen_queue, g_active_client_fd, g_loading_in_progress,
                   g_list_status, notifVars, main, cli, npc, budget, mmio,
                   silenced, primeCount>>

\* Lines 308-310 and 319-321: g_list_status[finished_list_idx] = LIST_IDLE
PlayerSetIdle ==
    /\ pl.pc \in {"sw_set", "stop_set"}
    /\ g_list_status' = [g_list_status EXCEPT ![pl.fin] = LIST_IDLE]
    /\ pl' = [pl EXCEPT !.pc = IF pl.pc = "sw_set" THEN "sw_send" ELSE "stop_send"]
    /\ UNCHANGED <<nopen, dir, drv, codec, lk, storeVars, mtx, g_stop_queue, g_listen_queue,
                   g_active_client_fd, g_loading_in_progress, notifVars, main,
                   cli, npc, budget, mmio, ghostVars, silenced, primeCount>>

\* Lines 311-312 and 322: send_status_update(finished_list_idx)
PlayerNotify ==
    /\ pl.pc \in {"sw_send", "stop_send"}
    /\ send_status_update(pl.fin)
    /\ pl' = IF pl.pc = "sw_send" THEN [pl EXCEPT !.pc = "relock"]
             ELSE PlIdle(PlayerLoopPc)
    /\ UNCHANGED <<dir, drv, codec, lk, storeVars, mtx, g_stop_queue, g_listen_queue,
                   g_active_client_fd, g_loading_in_progress, g_list_status,
                   subAlive, main, cli, npc, budget, mmio, ghostVars, silenced,
                   primeCount>>

\* Lines 324-338: re-lock after the switch notification and pick the frame
\* at cur_frame through the current_list pointer taken at the switch.
PlayerRelock ==
    /\ pl.pc = "relock" /\ mtx = "free"
    /\ IF PlayerHasFrame(pl.cl)
       THEN /\ cur_frame' = cur_frame + 1
            /\ pl' = PlayerPicked(pl.cl)
            /\ nsent' = [nsent EXCEPT ![pl.cl] = IF clean[pl.cl] THEN @ + 1 ELSE @]
       ELSE /\ cur_frame' = cur_frame
            /\ pl' = PlIdle(PlayerLoopPc)
            /\ nsent' = nsent
    /\ UNCHANGED <<nopen, dir, drv, codec, lk, list, playing, cur_list, next_list, mtx, g_stop_queue,
                   g_listen_queue, g_active_client_fd, g_loading_in_progress,
                   g_list_status, notifVars, main, cli, npc, budget, mmio,
                   pushed, clean, silenced, primeCount>>

\* Line 335: awg_send_words32(w, cnt) outside the lock.  When the buffer was
\* freed or moved meanwhile the words read are whatever the memory holds.
PlayerSend ==
    /\ pl.pc = "send"
    /\ \E out \in (IF pl.dangling THEN {pl.w, Garbage} ELSE {pl.w}) :
          /\ mmio' = out
          /\ silenced' = (silenced \/ (cli.pc \in ResetPcs /\ out = ZERO_GAIN_FRAME))
          /\ primeCount' = IF main \in StartPcs \cup FlushPcs /\ out = ZERO_GAIN_FRAME
                              /\ primeCount < 2 * FlushFrames
                           THEN primeCount + 1 ELSE primeCount
    /\ pl' = [pl EXCEPT !.pc = "top"]
    /\ UNCHANGED <<nopen, dir, drv, codec, lk, storeVars, mtx, g_stop_queue, g_listen_queue,
                   g_active_client_fd, g_loading_in_progress, g_list_status,
                   notifVars, main, cli, npc, budget, ghostVars>>

\* ---------------------------------------------- queue accept/service thread
\* Bytes a client may put on the wire.
W_COMMIT == <<240, 0, 0, 0>>
W_INDEX == <<16, 0, 0, 1>>
W_GAIN == <<32, 1, 255, 255>>

BeginInputs ==
    {<<i, <<0, 0, 0, n>> >> : i \in 0..2, n \in 0..MaxFrames}
      \cup {<<0, <<0, 30, 132, 129>> >>}

PushInputs ==
    {[id |-> i, count |-> <<0, 1>>, payload |-> <<W_COMMIT>>] : i \in 0..2}
      \cup {[id |-> i, count |-> <<0, 2>>, payload |-> <<W_INDEX, W_GAIN>>] : i \in 0..1}
      \cup {[id |-> 0, count |-> c, payload |-> <<>>] : c \in {<<0, 0>>, <<0, 65>>}}

CanRead == cli.pc = "cmd" /\ g_active_client_fd /\ budget > 0

\* accept_loop_queue: the thread is blocked in accept(), which returns a
\* connection; serve_client starts.
ClientConnect ==
    /\ cli.pc = "accept" /\ g_listen_queue
    /\ g_active_client_fd' = TRUE
    /\ g_loading_in_progress' = [i \in Lists |-> FALSE]
    /\ cli' = CliIdle("cmd")
    /\ UNCHANGED <<nopen, dir, drv, codec, lk, storeVars, mtx, g_stop_queue, g_listen_queue, g_list_status,
                   notifVars, main, pl, npc, mmio, budget, ghostVars, silenced,
                   primeCount>>

\* accept_loop_queue: accept() fails on the closed listening socket and the
\* loop ends.
ClientAcceptExit ==
    /\ cli.pc = "accept" /\ ~g_listen_queue /\ g_stop_queue
    /\ cli' = CliIdle("exited")
    /\ UNCHANGED <<nopen, dir, drv, codec, lk, storeVars, mtx, g_stop_queue, g_listen_queue,
                   g_active_client_fd, g_loading_in_progress, g_list_status,
                   notifVars, main, pl, npc, budget, mmio, ghostVars,
                   silenced, primeCount>>

\* read_n_timeout returns <= 0: timeout, peer close, socket closed.
ClientReadFail ==
    /\ cli.pc = "cmd"
    /\ cli' = CliIdle("drop")
    /\ UNCHANGED <<nopen, dir, drv, codec, lk, storeVars, mtx, g_stop_queue, g_listen_queue,
                   g_active_client_fd, g_loading_in_progress, g_list_status,
                   notifVars, main, pl, npc, budget, mmio, ghostVars,
                   silenced, primeCount>>

\* serve_client lines 667-669: the opcode is none of B, P, E, Z, X.
CmdUnknown ==
    /\ CanRead
    /\ budget' = budget - 1
    /\ cli' = CliIdle("drop")
    /\ UNCHANGED <<nopen, dir, drv, codec, lk, storeVars, mtx, g_stop_queue, g_listen_queue,
                   g_active_client_fd, g_loading_in_progress, g_list_status,
                   notifVars, main, pl, npc, mmio, ghostVars, silenced,
                   primeCount>>

\* do_preload_begin without the test for total_frames = 0
begin_valid_ZeroAllowed(list_id, total_frames) ==
    /\ list_id <= 1
    /\ total_frames <= MAX_TOTAL_FRAMES

\* do_preload_begin lines 497-501
begin_valid(list_id, total_frames) ==
    /\ list_id <= 1
    /\ total_frames # 0
    /\ total_frames <= MAX_TOTAL_FRAMES

\* 'B': serve_client lines 644-650, do_preload_begin lines 496-513
CmdBegin(inp) ==
    LET list_id == inp[1]
        total_frames == U32(be32_to_host(LoadU32(inp[2])))
    IN /\ CanRead
       /\ budget' = budget - 1
       /\ IF begin_valid(list_id, total_frames)
          THEN /\ mtx = "free"
               /\ list' = [list EXCEPT ![list_id] =
                              prepare_list_for_preload(@, total_frames)]
               /\ pl' = Dangle({list_id})
               /\ GhostClear({list_id})
               /\ g_loading_in_progress' =
                     [g_loading_in_progress EXCEPT ![list_id] = TRUE]
               /\ g_list_status' = [g_list_status EXCEPT ![list_id] = LIST_LOADING]
               /\ cli' = [CliIdle("b_send") EXCEPT !.id = list_id]
          ELSE /\ cli' = [CliIdle("drop") EXCEPT !.op = "B"]
               /\ UNCHANGED <<list, pl, ghostVars, g_loading_in_progress,
                              g_list_status>>
       /\ UNCHANGED <<nopen, dir, drv, codec, lk, playing, cur_list, cur_frame, next_list, mtx, g_stop_queue,
                      g_listen_queue, g_active_client_fd, notifVars, main, npc,
                      mmio, silenced, primeCount>>

\* do_preload_begin line 514
ClientBeginSend ==
    /\ cli.pc = "b_send"
    /\ send_status_update(cli.id)
    /\ cli' = CliIdle("cmd")
    /\ UNCHANGED <<dir, drv, codec, lk, storeVars, mtx, g_stop_queue, g_listen_queue,
                   g_active_client_fd, g_loading_in_progress, g_list_status,
                   subAlive, main, pl, npc, budget, mmio, ghostVars, silenced,
                   primeCount>>

\* do_preload_push line 539
push_header_valid(list_id, count) ==
    /\ list_id <= 1
    /\ count # 0
    /\ count <= MAX_WORDS_PER_FRAME

\* 'P': do_preload_push lines 520-578; when the list is now full G.mtx
\* stays held for the send and the auto-start.
CmdPush(inp) ==
    LET list_id == inp.id
        count == U16(be16_to_host(LoadU16(inp.count)))
        tmp == [i \in 1..count |-> be32_to_host(LoadU32(inp.payload[i]))]
    IN /\ CanRead
       /\ budget' = budget - 1
       /\ IF ~push_header_valid(list_id, count)
          THEN /\ cli' = [CliIdle("drop") EXCEPT !.op = "P"]
               /\ UNCHANGED <<list, mtx, pl, g_loading_in_progress,
                              g_list_status, ghostVars>>
          ELSE /\ mtx = "free"
               /\ IF ~push_frame_ok(list[list_id], tmp, count)
                  THEN /\ cli' = [CliIdle("drop") EXCEPT !.op = "P"]
                       /\ UNCHANGED <<list, mtx, pl, g_loading_in_progress,
                                      g_list_status, ghostVars>>
                  ELSE LET L == push_frame(list[list_id], tmp, count)
                           full == L.loaded_frames = L.total_frames
                       IN /\ list' = [list EXCEPT ![list_id] =
                                         IF full THEN [L EXCEPT !.ready = TRUE] ELSE L]
                          /\ pl' = IF list[list_id].words_cap # 0
                                      /\ L.words_cap # list[list_id].words_cap
                                   THEN Dangle({list_id}) ELSE pl
                          /\ pushed' = [pushed EXCEPT ![list_id] = Append(@, tmp)]
                          /\ clean' = [clean EXCEPT ![list_id] =
                                          full /\ ~list[list_id].ready]
                          /\ nsent' = nsent
                          /\ IF full
                             THEN /\ g_loading_in_progress' =
                                       [g_loading_in_progress EXCEPT ![list_id] = FALSE]
                                  /\ g_list_status' =
                                       [g_list_status EXCEPT ![list_id] = LIST_READY]
                                  /\ mtx' = "client"
                                  /\ cli' = [CliIdle("p_send") EXCEPT
                                               !.id = list_id,
                                               !.madeReady = ~list[list_id].ready]
                             ELSE /\ cli' = CliIdle("cmd")
                                  /\ UNCHANGED <<mtx, g_loading_in_progress,
                                                 g_list_status>>
       /\ UNCHANGED <<nopen, dir, drv, codec, lk, playing, cur_list, cur_frame, next_list, g_stop_queue,
                      g_listen_queue, g_active_client_fd, notifVars, main, npc,
                      mmio, silenced, primeCount>>

\* 'E': serve_client lines 654-659, do_preload_end lines 595-615; G.mtx
\* stays held for the send and the auto-start.
CmdEnd(list_id) ==
    /\ CanRead
    /\ budget' = budget - 1
    /\ IF list_id > 1
       THEN /\ cli' = CliIdle("drop")
            /\ UNCHANGED <<list, mtx, g_loading_in_progress, g_list_status>>
       ELSE /\ mtx = "free"
            /\ g_loading_in_progress' = [g_loading_in_progress EXCEPT ![list_id] = FALSE]
            /\ IF list[list_id].loaded_frames = 0
               THEN /\ cli' = CliIdle("drop")
                    /\ UNCHANGED <<list, mtx, g_list_status>>
               ELSE /\ list' = [list EXCEPT ![list_id].ready = TRUE]
                    /\ g_list_status' = [g_list_status EXCEPT ![list_id] = LIST_READY]
                    /\ mtx' = "client"
                    /\ cli' = [CliIdle("e_send") EXCEPT
                                 !.id = list_id,
                                 !.madeReady = ~list[list_id].ready]
    /\ UNCHANGED <<nopen, dir, drv, codec, lk, playing, cur_list, cur_frame, next_list, g_stop_queue,
                   g_listen_queue, g_active_client_fd, notifVars, main, pl, npc,
                   mmio, ghostVars, silenced, primeCount>>

\* An auto-start that forgets to rewind cur_frame
ClientReadySend_NoRewind ==
    /\ cli.pc \in {"p_send", "e_send"}
    /\ send_status_update(cli.id)
    /\ IF ~playing
       THEN /\ playing' = TRUE
            /\ cur_list' = cli.id
            /\ next_list' = 1 - cli.id
            /\ cur_frame' = cur_frame
       ELSE UNCHANGED <<playing, cur_list, next_list, cur_frame>>
    /\ mtx' = "free"
    /\ cli' = CliIdle("cmd")
    /\ UNCHANGED <<dir, drv, codec, lk, list, g_stop_queue, g_listen_queue, g_active_client_fd,
                   g_loading_in_progress, g_list_status, subAlive, main, pl,
                   npc, budget, mmio, ghostVars, silenced, primeCount>>

\* A list made ready without the auto-start
ClientReadySend_NoAutoStart ==
    /\ cli.pc \in {"p_send", "e_send"}
    /\ send_status_update(cli.id)
    /\ UNCHANGED <<playing, cur_list, next_list, cur_frame>>
    /\ mtx' = "free"
    /\ cli' = CliIdle("cmd")
    /\ UNCHANGED <<dir, drv, codec, lk, list, g_stop_queue, g_listen_queue, g_active_client_fd,
                   g_loading_in_progress, g_list_status, subAlive, main, pl,
                   npc, budget, mmio, ghostVars, silenced, primeCount>>

\* do_preload_push lines 579-590, do_preload_end lines 616-626: the send,
\* then the auto-start, then the unlock of G.mtx.
ClientReadySend ==
    /\ cli.pc \in {"p_send", "e_send"}
    /\ send_status_update(cli.id)
    /\ IF ~playing
       THEN /\ playing' = TRUE
            /\ cur_list' = cli.id
            /\ next_list' = 1 - cli.id
            /\ cur_frame' = 0
       ELSE UNCHANGED <<playing, cur_list, next_list, cur_frame>>
    /\ mtx' = "free"
    /\ cli' = CliIdle("cmd")
    /\ UNCHANGED <<dir, drv, codec, lk, list, g_stop_queue, g_listen_queue, g_active_client_fd,
                   g_loading_in_progress, g_list_status, subAlive, main, pl,
                   npc, budget, mmio, ghostVars, silenced, primeCount>>

\* 'Z' and 'X': do_reset lines 393-403 (stop playback, clear both lists)
CmdReset(x) ==
    /\ CanRead /\ mtx = "free"
    /\ budget' = budget - 1
    /\ playing' = FALSE
    /\ cur_frame' = 0
    /\ list' = [i \in Lists |-> clear_list_fully(list[i])]
    /\ g_loading_in_progress' = [i \in Lists |-> FALSE]
    /\ pl' = Dangle({0, 1})
    /\ GhostClear({0, 1})
    /\ silenced' = FALSE
    /\ cli' = [CliIdle("r_load0") EXCEPT !.poweroff = x]
    /\ UNCHANGED <<nopen, dir, drv, codec, lk, cur_list, next_list, mtx, g_stop_queue, g_listen_queue,
                   g_active_client_fd, g_list_status, notifVars, main, npc,
                   mmio, primeCount>>

\* A do_reset whose waits ignore the stop flag
reset_wait_over_NoStopEscape(k) == g_list_status[k] = LIST_IDLE

\* A do_reset that does not wait for the player
reset_wait_over_NoWait(k) == k \in Lists

\* do_reset lines 436 and 470: the condition that ends the wait for list k
reset_wait_over(k) == ~(g_list_status[k] # LIST_IDLE /\ ~g_stop_queue)

\* do_reset lines 410-432 (list 0) and, once the wait for list 0 is over,
\* lines 443-466 (list 1): load the silence list, start the player on it and
\* set the internal status without sending it.
ClientResetLoad ==
    /\ cli.pc \in {"r_load0", "r_load1"} /\ mtx = "free"
    /\ cli.pc = "r_load1" => reset_wait_over(0)
    /\ LET k == IF cli.pc = "r_load0" THEN 0 ELSE 1
       IN /\ list' = [list EXCEPT ![k] = load_zero_gain_list(@, FlushFrames)]
          /\ cur_list' = k
          /\ next_list' = 1 - k
          /\ cur_frame' = 0
          /\ playing' = TRUE
          /\ pl' = Dangle({k})
          /\ GhostClear({k})
          /\ g_list_status' = [i \in Lists |-> IF i = k THEN LIST_READY ELSE LIST_IDLE]
          /\ cli' = [cli EXCEPT !.pc = IF k = 0 THEN "r_load1" ELSE "r_final"]
    /\ UNCHANGED <<nopen, dir, drv, codec, lk, mtx, g_stop_queue, g_listen_queue, g_active_client_fd,
                   g_loading_in_progress, notifVars, main, npc, budget, mmio,
                   silenced, primeCount>>

\* do_reset lines 470-489, once the wait for list 1 is over: stop, clear
\* both lists, set both internal statuses to IDLE.
ClientResetFinal ==
    /\ cli.pc = "r_final" /\ mtx = "free"
    /\ reset_wait_over(1)
    /\ playing' = FALSE
    /\ list' = [i \in Lists |-> clear_list_fully(list[i])]
    /\ g_loading_in_progress' = [i \in Lists |-> FALSE]
    /\ pl' = Dangle({0, 1})
    /\ GhostClear({0, 1})
    /\ g_list_status' = [i \in Lists |-> LIST_IDLE]
    /\ cli' = [cli EXCEPT !.pc = "r_send0"]
    /\ UNCHANGED <<nopen, dir, drv, codec, lk, cur_list, cur_frame, next_list, mtx, g_stop_queue,
                   g_listen_queue, g_active_client_fd, notifVars, main, npc,
                   budget, mmio, silenced, primeCount>>

\* do_reset lines 491-492; after 'X' serve_client goes to drop
ClientResetSend ==
    /\ cli.pc \in {"r_send0", "r_send1"}
    /\ send_status_update(IF cli.pc = "r_send0" THEN 0 ELSE 1)
    /\ cli' = IF cli.pc = "r_send0" THEN [cli EXCEPT !.pc = "r_send1"]
              ELSE IF cli.poweroff THEN CliIdle("drop") ELSE CliIdle("cmd")
    /\ silenced' = IF cli.pc = "r_send1" THEN FALSE ELSE silenced
    /\ UNCHANGED <<dir, drv, codec, lk, storeVars, mtx, g_stop_queue, g_listen_queue,
                   g_active_client_fd, g_loading_in_progress, g_list_status,
                   subAlive, main, pl, npc, budget, mmio, ghostVars, primeCount>>

\* serve_client lines 672-674: the next list to cancel, 2 when none is left
NextCancel ==
    IF cli.id = 0 /\ g_loading_in_progress[0] THEN 0
    ELSE IF cli.id <= 1 /\ g_loading_in_progress[1] THEN 1
    ELSE 2

\* A cancel that marks the list IDLE without freeing it
ClientCancel_KeepsList ==
    /\ cli.pc = "drop" /\ NextCancel <= 1 /\ mtx = "free"
    /\ g_loading_in_progress' = [g_loading_in_progress EXCEPT ![NextCancel] = FALSE]
    /\ list' = list
    /\ pl' = pl
    /\ UNCHANGED ghostVars
    /\ g_list_status' = [g_list_status EXCEPT ![NextCancel] = LIST_IDLE]
    /\ cli' = [CliIdle("c_send") EXCEPT !.id = NextCancel]
    /\ UNCHANGED <<nopen, dir, drv, codec, lk, playing, cur_list, cur_frame, next_list, mtx, g_stop_queue,
                   g_listen_queue, g_active_client_fd, notifVars, main, npc,
                   budget, mmio, silenced, primeCount>>

\* cancel_preload_and_mark_idle lines 374-385
ClientCancel ==
    /\ cli.pc = "drop" /\ NextCancel <= 1 /\ mtx = "free"
    /\ g_loading_in_progress' = [g_loading_in_progress EXCEPT ![NextCancel] = FALSE]
    /\ list' = [list EXCEPT ![NextCancel] = clear_list_fully(@)]
    /\ pl' = Dangle({NextCancel})
    /\ GhostClear({NextCancel})
    /\ g_list_status' = [g_list_status EXCEPT ![NextCancel] = LIST_IDLE]
    /\ cli' = [CliIdle("c_send") EXCEPT !.id = NextCancel]
    /\ UNCHANGED <<nopen, dir, drv, codec, lk, playing, cur_list, cur_frame, next_list, mtx, g_stop_queue,
                   g_listen_queue, g_active_client_fd, notifVars, main, npc,
                   budget, mmio, silenced, primeCount>>

\* cancel_preload_and_mark_idle line 387
ClientCancelSend ==
    /\ cli.pc = "c_send"
    /\ send_status_update(cli.id)
    /\ cli' = [CliIdle("drop") EXCEPT !.id = cli.id + 1]
    /\ UNCHANGED <<dir, drv, codec, lk, storeVars, mtx, g_stop_queue, g_listen_queue,
                   g_active_client_fd, g_loading_in_progress, g_list_status,
                   subAlive, main, pl, npc, budget, mmio, ghostVars, silenced,
                   primeCount>>

\* serve_client lines 676-677 and accept_loop_queue lines 698 and 683: the
\* connection is closed and the loop goes back to accept() unless
\* g_stop_queue is set.
ClientClose ==
    /\ cli.pc = "drop" /\ NextCancel = 2
    /\ g_active_client_fd' = FALSE
    /\ cli' = CliIdle(IF g_stop_queue THEN "exited" ELSE "accept")
    /\ UNCHANGED <<nopen, dir, drv, codec, lk, storeVars, mtx, g_stop_queue, g_listen_queue,
                   g_loading_in_progress, g_list_status, notifVars, main, pl,
                   npc, budget, mmio, ghostVars, silenced, primeCount>>

\* ------------------------------------------------------------ main thread
\* start_queue_server lines 719-724 (list 0) and, once the wait of line 725
\* is over, lines 729-734 (list 1)
MainPrime ==
    /\ main \in {"prime0", "prime1"} /\ mtx = "free"
    /\ main = "prime1" => g_list_status[0] = LIST_IDLE
    /\ LET k == IF main = "prime0" THEN 0 ELSE 1
       IN /\ list' = [list EXCEPT ![k] = load_zero_gain_list(@, FlushFrames)]
          /\ cur_list' = k
          /\ next_list' = 1 - k
          /\ cur_frame' = 0
          /\ playing' = TRUE
          /\ pl' = Dangle({k})
          /\ GhostClear({k})
    /\ main' = IF main = "prime0" THEN "prime1" ELSE "listen"
    /\ UNCHANGED <<nopen, dir, drv, codec, lk, mtx, g_stop_queue, g_listen_queue, g_active_client_fd,
                   g_loading_in_progress, g_list_status, notifVars, cli, npc,
                   budget, mmio, silenced, primeCount>>

\* start_queue_server lines 735-754: the wait for list 1 is over; socket,
\* bind, listen, accept thread
MainListen ==
    /\ main = "listen"
    /\ g_list_status[1] = LIST_IDLE
    /\ g_listen_queue' = TRUE
    /\ cli' = CliIdle("accept")
    /\ main' = "running"
    /\ primeCount' = 0
    /\ UNCHANGED <<nopen, dir, drv, codec, lk, storeVars, mtx, g_stop_queue, g_active_client_fd,
                   g_loading_in_progress, g_list_status, notifVars, pl, npc,
                   budget, mmio, ghostVars, silenced>>

\* stop_queue_server line 763, after the stop signal
MainStopFlag ==
    /\ main = "running"
    /\ g_stop_queue' = TRUE
    /\ main' = "stop_net"
    /\ UNCHANGED <<nopen, dir, drv, codec, lk, storeVars, mtx, g_listen_queue, g_active_client_fd,
                   g_loading_in_progress, g_list_status, notifVars, cli, pl,
                   npc, budget, mmio, ghostVars, silenced, primeCount>>

\* stop_queue_server lines 764-773: both sockets are closed
MainStopNet ==
    /\ main = "stop_net"
    /\ g_stop_queue' = g_stop_queue
    /\ g_listen_queue' = FALSE
    /\ g_active_client_fd' = FALSE
    /\ main' = "flush0"
    /\ UNCHANGED <<nopen, dir, drv, codec, lk, storeVars, mtx, g_loading_in_progress, g_list_status,
                   notifVars, cli, pl, npc, budget, mmio, ghostVars, silenced,
                   primeCount>>

\* stop_queue_server lines 774-792 (the accept thread is joined, list 0 is
\* flushed) and, once the wait of line 793 is over, lines 797-803 (list 1)
MainFlush ==
    /\ main \in {"flush0", "flush1"} /\ mtx = "free"
    /\ main = "flush0" => cli.pc = "exited"
    /\ main = "flush1" => g_list_status[0] = LIST_IDLE
    /\ LET k == IF main = "flush0" THEN 0 ELSE 1
           S == IF k = 0 THEN {0, 1} ELSE {1}
       IN /\ list' = [i \in Lists |->
                        IF i = k THEN load_zero_gain_list(list[i], FlushFrames)
                        ELSE IF i \in S THEN clear_list_fully(list[i])
                        ELSE list[i]]
          /\ cur_list' = k
          /\ next_list' = 1 - k
          /\ cur_frame' = 0
          /\ playing' = TRUE
          /\ pl' = Dangle(S)
          /\ GhostClear(S)
    /\ main' = IF main = "flush0" THEN "flush1" ELSE "join_player"
    /\ UNCHANGED <<nopen, dir, drv, codec, lk, mtx, g_stop_queue, g_listen_queue, g_active_client_fd,
                   g_loading_in_progress, g_list_status, notifVars, cli, npc,
                   budget, mmio, silenced, primeCount>>

\* stop_queue_server lines 804-815: the wait for list 1 is over and the
\* player thread is joined
MainJoinPlayer ==
    /\ main = "join_player"
    /\ g_list_status[1] = LIST_IDLE
    /\ pl.pc = "exited"
    /\ main' = "stopped"
    /\ UNCHANGED <<nopen, dir, drv, codec, lk, storeVars, mtx, g_stop_queue, g_listen_queue,
                   g_active_client_fd, g_loading_in_progress, g_list_status,
                   notifVars, cli, pl, npc, budget, mmio, ghostVars, silenced,
                   primeCount>>

\* ------------------------------------------------- notifier accept thread
\* accept() returns the socket of a new subscriber.
NotifyAccept ==
    /\ npc = "accept" /\ main # "stopped"
    /\ nopen' = nopen + 1
    /\ npc' = "n_reg"
    /\ UNCHANGED <<dir, drv, codec, lk, storeVars, mtx, g_stop_queue, g_listen_queue,
                   g_active_client_fd, g_loading_in_progress, g_list_status,
                   notifVars, main, cli, pl, mmio, budget, ghostVars, silenced,
                   primeCount>>

\* A registration that keeps the cache of the previous subscriber
NotifyRegister_KeepsCache ==
    /\ npc = "n_reg"
    /\ nopen' = IF g_notify_fd THEN nopen - 1 ELSE nopen
    /\ g_notify_fd' = TRUE
    /\ last_sent' = last_sent
    /\ subAlive' = TRUE
    /\ npc' = "n_send0"
    /\ UNCHANGED <<dir, drv, codec, lk, storeVars, mtx, g_stop_queue, g_listen_queue,
                   g_active_client_fd, g_loading_in_progress, g_list_status,
                   main, cli, pl, mmio, budget, ghostVars, silenced,
                   primeCount>>

\* A registration that forgets to close the previous subscriber's socket
NotifyRegister_LeaksPrevious ==
    /\ npc = "n_reg"
    /\ nopen' = nopen
    /\ g_notify_fd' = TRUE
    /\ last_sent' = [i \in Lists |-> UNKNOWN]
    /\ subAlive' = TRUE
    /\ npc' = "n_send0"
    /\ UNCHANGED <<dir, drv, codec, lk, storeVars, mtx, g_stop_queue, g_listen_queue,
                   g_active_client_fd, g_loading_in_progress, g_list_status,
                   main, cli, pl, mmio, budget, ghostVars, silenced,
                   primeCount>>

\* Under g_notify_mutex the previous subscriber's socket is closed, the new
\* one becomes g_notify_fd and the cache is reset.
NotifyRegister ==
    /\ npc = "n_reg"
    /\ nopen' = IF g_notify_fd THEN nopen - 1 ELSE nopen
    /\ g_notify_fd' = TRUE
    /\ last_sent' = [i \in Lists |-> UNKNOWN]
    /\ subAlive' = TRUE
    /\ npc' = "n_send0"
    /\ UNCHANGED <<dir, drv, codec, lk, storeVars, mtx, g_stop_queue, g_listen_queue,
                   g_active_client_fd, g_loading_in_progress, g_list_status,
                   main, cli, pl, mmio, budget, ghostVars, silenced,
                   primeCount>>

\* The current status of list 0, then of list 1, is sent to the new subscriber.
NotifyInitial ==
    /\ npc \in {"n_send0", "n_send1"}
    /\ send_status_update(IF npc = "n_send0" THEN 0 ELSE 1)
    /\ npc' = IF npc = "n_send0" THEN "n_send1" ELSE "accept"
    /\ UNCHANGED <<dir, drv, codec, lk, storeVars, mtx, g_stop_queue, g_listen_queue,
                   g_active_client_fd, g_loading_in_progress, g_list_status,
                   subAlive, main, cli, pl, budget, mmio, ghostVars, silenced,
                   primeCount>>

\* The subscriber closes its end; the next send to it fails.
SubscriberClose ==
    /\ subAlive
    /\ subAlive' = FALSE
    /\ UNCHANGED <<nopen, dir, drv, codec, lk, storeVars, mtx, g_stop_queue, g_listen_queue,
                   g_active_client_fd, g_loading_in_progress, g_list_status,
                   g_notify_fd, last_sent, main, cli, pl, npc, budget, mmio,
                   ghostVars, silenced, primeCount>>

\* ------------------------------------------------------- direct server
\* The direct server (port 9000) is started before the queue server and
\* stopped right before it: stop_direct_server and the first statement of
\* stop_queue_server are one step of main, so g_stop_direct is set exactly
\* when g_stop_queue is.
g_stop_direct == g_stop_queue

\* Everything but dir, main, drv, codec and lk
queueVars == <<list, playing, cur_list, cur_frame, next_list, mtx, g_stop_queue,
               g_listen_queue, g_active_client_fd, g_loading_in_progress,
               g_list_status, g_notify_fd, last_sent, cli, pl, npc, subAlive,
               mmio, nopen, budget, pushed, clean, nsent, silenced,
               primeCount>>

\* accept_loop: a client connects and gets its detached client_thread
DirectConnect ==
    /\ dir = "off" /\ ~g_stop_direct
    /\ dir' = "read"
    /\ UNCHANGED <<queueVars, main, drv, codec, lk>>

\* awg_close has not unmapped the registers (awg_core_mmap.c lines 198-203)
g_data_regs == main # "closed"

\* client_thread lines 97-116: a frame with 1 <= count <= 64 has been read
\* and awg_send_words32 is entered; no lock is taken.  With the registers
\* unmapped the call returns -1 at once and the loop goes on.
DirectFrame ==
    /\ dir = "read"
    /\ dir' = IF g_data_regs THEN "send"
              ELSE IF g_stop_direct THEN "off" ELSE "read"
    /\ UNCHANGED <<queueVars, main, drv, codec, lk>>

\* client_thread lines 116-118 and 97: awg_send_words32 returns and the
\* loop goes on unless g_stop_direct is set.  mmio follows the player's
\* words only.
DirectSendEnd ==
    /\ dir = "send"
    /\ dir' = IF g_stop_direct THEN "off" ELSE "read"
    /\ UNCHANGED <<queueVars, main, drv, codec, lk>>

\* client_thread lines 100-113 and 120: a read fails or the count is bad
DirectClose ==
    /\ dir = "read"
    /\ dir' = "off"
    /\ UNCHANGED <<queueVars, main, drv, codec, lk>>

\* main line 94: awg_zero_output is entered once stop_queue_server is back
MainZeroOutput ==
    /\ main = "stopped"
    /\ main' = "zero"
    /\ UNCHANGED <<queueVars, dir, drv, codec, lk>>

\* main line 97: awg_zero_output is over and the core is closed
MainClose ==
    /\ main = "zero"
    /\ main' = "closed"
    /\ UNCHANGED <<queueVars, dir, drv, codec, lk>>

\* ---------------------------------------------------------- specification
\* The steps of the player, the preload handler and the main thread
NextCore ==
    \/ PlayerLoop
    \/ PlayerTickIdle
    \/ PlayerTickFrame
    \/ PlayerTickSwitch
    \/ PlayerTickStop
    \/ PlayerSetIdle
    \/ PlayerNotify
    \/ PlayerRelock
    \/ PlayerSend
    \/ ClientConnect
    \/ ClientAcceptExit
    \/ ClientReadFail
    \/ CmdUnknown
    \/ \E inp \in BeginInputs : CmdBegin(inp)
    \/ ClientBeginSend
    \/ \E inp \in PushInputs : CmdPush(inp)
    \/ \E id \in 0..2 : CmdEnd(id)
    \/ ClientReadySend
    \/ \E x \in BOOLEAN : CmdReset(x)
    \/ ClientResetLoad
    \/ ClientResetFinal
    \/ ClientResetSend
    \/ ClientCancel
    \/ ClientCancelSend
    \/ ClientClose
    \/ MainPrime
    \/ MainListen
    \/ MainStopFlag
    \/ MainStopNet
    \/ MainFlush
    \/ MainJoinPlayer

\* The same with a notification subscriber
NextNotify ==
    \/ NextCore
    \/ NotifyAccept
    \/ NotifyRegister
    \/ NotifyInitial
    \/ SubscriberClose

\* No subscriber ever connects: the notifier's socket and cache are read by
\* send_status_update alone and decide nothing in the store, the player or
\* the preload handler.
Spec == Init /\ [][NextCore]_vars

SpecNotify == InitNotify /\ [][NextNotify]_vars

\* The queue server next to a direct-server client and main's last steps
NextDirect ==
    \/ NextCore
    \/ DirectConnect
    \/ DirectFrame
    \/ DirectSendEnd
    \/ DirectClose
    \/ MainZeroOutput
    \/ MainClose

SpecDirect == InitDirect /\ [][NextDirect]_vars

\* One preload and nothing else: a subscriber attaches once, while both
\* statuses are IDLE and before any command, and stays; one client sends
\* BEGIN(0, n) after the subscriber's greeting and then valid PUSHes to
\* list 0 while the list takes them.  The program's own steps are as they
\* are; nobody resets, disconnects or stops the process.
MaxCmdsOnce == MaxFrames + 1

InitOnce == InitWith(MaxCmdsOnce)

OnceAttach ==
    /\ ~g_notify_fd /\ nopen = 0 /\ budget = MaxCmdsOnce
    /\ \A i \in Lists : g_list_status[i] = LIST_IDLE
    /\ NotifyAccept

OnceBegin ==
    /\ budget = MaxCmdsOnce
    /\ g_notify_fd /\ npc = "accept"
    /\ \A i \in Lists : g_list_status[i] = LIST_IDLE
    /\ \E n \in 1..MaxFrames : CmdBegin(<<0, <<0, 0, 0, n>> >>)

OncePush ==
    /\ budget < MaxCmdsOnce
    /\ list[0].loaded_frames < list[0].total_frames
    /\ \E inp \in {x \in PushInputs : x.id = 0 /\ Len(x.payload) > 0} : CmdPush(inp)

NextOnce ==
    \/ PlayerLoop
    \/ PlayerTickIdle
    \/ PlayerTickFrame
    \/ PlayerTickSwitch
    \/ PlayerTickStop
    \/ PlayerSetIdle
    \/ PlayerNotify
    \/ PlayerRelock
    \/ PlayerSend
    \/ MainPrime
    \/ MainListen
    \/ ClientConnect
    \/ OnceBegin
    \/ ClientBeginSend
    \/ OncePush
    \/ ClientReadySend
    \/ OnceAttach
    \/ NotifyRegister
    \/ NotifyInitial

SpecOnce == InitOnce /\ [][NextOnce]_vars

\* ------------------------------------------------------------ word packers
\* The three packers side by side on one input: the macros of the queue
\* server, the functions of the MMIO core and those of the test program.
\* 20-bit payloads tried: the ends of the range, the largest index (899),
\* the largest Q1.17 gain and values with bits in every nibble.
Payloads == {0, 1, 899, 131071, 524288, 74565, 1048575}

InitCodec == InitWith(0)

CodecPack ==
    /\ codec.pc = "idle"
    /\ \E cmd \in {1, 2, 15}, ch \in 0..1, tone \in 0..7, d \in Payloads :
          /\ cmd = 15 => (ch = 0 /\ tone = 0 /\ d = 0)
          /\ codec' = [pc |-> "packed", cmd |-> cmd, ch |-> ch, tone |-> tone,
                       data20 |-> d,
                       q |-> IF cmd = 1 THEN MAKE_INDEX_WORD(ch, tone, d)
                             ELSE IF cmd = 2 THEN MAKE_GAIN_WORD(ch, tone, d)
                             ELSE MAKE_COMMIT_WORD,
                       c |-> IF cmd = 1 THEN make_index_word(ch, tone, d)
                             ELSE IF cmd = 2 THEN make_gain_word(ch, tone, d)
                             ELSE make_commit_word,
                       t |-> IF cmd = 1 THEN test_make_index_word(ch, tone, d)
                             ELSE IF cmd = 2 THEN test_make_gain_word(ch, tone, d)
                             ELSE test_make_commit_word]
    /\ UNCHANGED <<queueVars, dir, main, drv, lk>>

\* The word has been looked at; the next input
CodecNext ==
    /\ codec.pc = "packed"
    /\ codec' = CodecIdle
    /\ UNCHANGED <<queueVars, dir, main, drv, lk>>

NextCodec ==
    \/ CodecPack
    \/ CodecNext

SpecCodec == InitCodec /\ [][NextCodec]_vars

\* ------------------------------------------------------------ MMIO driver
\* One thread calls awg_send_words32; the call is followed register write
\* by register write.  The WEN register is a number whose bit WEN_BIT is the
\* strobe (DEF_WEN_ACTHI = 1: the strobe is active when the bit is 1); bit 1
\* stands for the bits of the register the driver does not own.
WEN_BIT == 0
DEF_WEN_ACTHI == 1
\* Longest word array a call gets in the model
MaxDrvWords == 2

RECURSIVE Pow2(_)
Pow2(n) == IF n = 0 THEN 1 ELSE 2 * Pow2(n - 1)

WenBitOf(val) == (val \div Pow2(WEN_BIT)) % 2
SetWenBit(val) == IF WenBitOf(val) = 1 THEN val ELSE val + Pow2(WEN_BIT)
ClearWenBit(val) == IF WenBitOf(val) = 1 THEN val - Pow2(WEN_BIT) ELSE val

\* wen_edge lines 151-152: the value written first
wen_on(active_high, val) == IF active_high # 0 THEN SetWenBit(val) ELSE ClearWenBit(val)

\* A strobe that is never released
wen_off_Stuck(active_high, val) == wen_on(active_high, val)

\* wen_edge lines 153-154: the value written last
wen_off(active_high, val) == IF active_high # 0 THEN ClearWenBit(val) ELSE SetWenBit(val)

\* The level awg_init leaves the strobe at (lines 191-193)
WenIdle(val) == WenBitOf(val) = (IF DEF_WEN_ACTHI # 0 THEN 0 ELSE 1)

DrvWordArrays ==
    UNION {[1..n -> {W_GAIN, W_COMMIT}] : n \in 0..MaxDrvWords}

InitDriver == InitWith(0)

\* awg_send_words32 lines 247-248: the call and its two tests.  The driver
\* is mapped or not, words32 is null or an array, count is any int up to
\* the array's length; the WEN register is as awg_init left it.
DrvCall ==
    /\ drv.pc = "idle"
    /\ \E init \in BOOLEAN, null \in BOOLEAN, ws \in DrvWordArrays,
          count \in -1..MaxDrvWords, wen0 \in {0, 2} :
          /\ count <= Len(ws)
          /\ null => ws = <<>>
          /\ drv' = [DrvIdle EXCEPT
                        !.init = init, !.null = null, !.words = ws,
                        !.count = count, !.wen0 = wen0, !.wen = wen0,
                        !.rc = IF ~init THEN -1
                               ELSE IF null \/ count <= 0 THEN -2 ELSE 0,
                        !.pc = IF ~init \/ null \/ count <= 0 THEN "ret" ELSE "word"]
    /\ UNCHANGED <<queueVars, dir, main, codec, lk>>

\* Line 251, write_word32: the data register takes words32[i]
DrvWriteWord ==
    /\ drv.pc = "word"
    /\ drv' = [drv EXCEPT !.data = drv.words[drv.i + 1],
                          !.log = Append(@, <<"DATA", drv.words[drv.i + 1]>>),
                          !.pc = "on"]
    /\ UNCHANGED <<queueVars, dir, main, codec, lk>>

\* Line 252, wen_edge lines 150-155: the WEN register is read and written
\* with the strobe active
DrvWenOn ==
    /\ drv.pc = "on"
    /\ drv' = [drv EXCEPT !.wen = wen_on(DEF_WEN_ACTHI, drv.wen),
                          !.off = wen_off(DEF_WEN_ACTHI, drv.wen),
                          !.log = Append(@, <<"WEN", wen_on(DEF_WEN_ACTHI, drv.wen)>>),
                          !.pc = "off"]
    /\ UNCHANGED <<queueVars, dir, main, codec, lk>>

\* wen_edge line 157 and the loop of lines 250-254: the strobe is released,
\* then the next word or the return of 0
DrvWenOff ==
    /\ drv.pc = "off"
    /\ drv' = [drv EXCEPT !.wen = drv.off,
                          !.log = Append(@, <<"WEN", drv.off>>),
                          !.i = @ + 1,
                          !.pc = IF drv.i + 1 < drv.count THEN "word" ELSE "ret"]
    /\ UNCHANGED <<queueVars, dir, main, codec, lk>>

\* The caller has the return value
DrvReturn ==
    /\ drv.pc = "ret"
    /\ drv' = DrvIdle
    /\ UNCHANGED <<queueVars, dir, main, codec, lk>>

NextDriver ==
    \/ DrvCall
    \/ DrvWriteWord
    \/ DrvWenOn
    \/ DrvWenOff
    \/ DrvReturn

SpecDriver == InitDriver /\ [][NextDriver]_vars

\* ------------------------------------------------------- the two mutexes
\* The lock and unlock calls of every thread, in the order the code makes
\* them on each of its paths; "g" is G.mtx and "n" is g_notify_mutex.
LG == <<"lock", "g">>
UG == <<"unlock", "g">>
LN == <<"lock", "n">>
UN == <<"unlock", "n">>

\* The store of g_list_status under the notifier mutex (for example lines
\* 308-310)
set_status_locks == <<LN, UN>>

\* The notifier takes its own mutex around the compare and the send
send_status_update_locks == <<LN, UN>>

\* send_system_status lines 42-61
send_system_status_locks == <<LN, UN>>

\* A player whose switch branch relocks G.mtx before it has released the
\* notifier mutex
player_thread_locks_RelocksEarly ==
    { <<LG, UG, LG, UG>>,
      <<LG, UG, LG, UG>> \o set_status_locks \o send_status_update_locks,
      <<LG, UG, LG, UG, LN, LG, UN>> \o send_status_update_locks \o <<UG>> }

\* player_thread, one turn of the loop: the period read (lines 275-277),
\* then the tick: idle or a frame (282-285, 328-337), the end-of-list stop
\* (282, 306, 308-311), the switch (282, 317, 319-322, 324, 334 or 337).
player_thread_locks ==
    { <<LG, UG, LG, UG>>,
      <<LG, UG, LG, UG>> \o set_status_locks \o send_status_update_locks,
      <<LG, UG, LG, UG>> \o set_status_locks \o send_status_update_locks
          \o <<LG, UG>> }

\* do_preload_begin lines 505-514: the list could not be prepared, or it
\* could and LOADING is stored and sent after the unlock
do_preload_begin_locks ==
    { <<LG, UG>>,
      <<LG, UG>> \o set_status_locks \o send_status_update_locks }

\* do_preload_push lines 564-590: a frame that does not complete the list,
\* or the last frame, whose READY is stored and sent with G.mtx held
do_preload_push_locks ==
    { <<LG, UG>>,
      <<LG>> \o set_status_locks \o send_status_update_locks \o <<UG>> }

\* do_preload_end lines 601-626: the empty list, or READY stored and sent
\* with G.mtx held
do_preload_end_locks ==
    { <<LG, UG>>,
      <<LG>> \o set_status_locks \o send_status_update_locks \o <<UG>> }

\* do_reset lines 393-492: the whole sequence, and the two returns after a
\* silence list could not be loaded (lines 423-430 and 457-464)
do_reset_locks ==
    { <<LG, UG>> \o <<LG>> \o set_status_locks \o <<UG>>
        \o <<LG>> \o set_status_locks \o <<UG>>
        \o <<LG, UG>> \o set_status_locks
        \o send_status_update_locks \o send_status_update_locks,
      <<LG, UG>> \o <<LG, UG>> \o set_status_locks,
      <<LG, UG>> \o <<LG>> \o set_status_locks \o <<UG>>
        \o <<LG, UG>> \o set_status_locks }

\* cancel_preload_and_mark_idle lines 379-387
cancel_preload_and_mark_idle_locks ==
    { <<LG, UG>> \o set_status_locks \o send_status_update_locks }

\* serve_client: one command or the cancel at the drop label
serve_client_locks ==
    do_preload_begin_locks \cup do_preload_push_locks \cup do_preload_end_locks
      \cup do_reset_locks \cup cancel_preload_and_mark_idle_locks

\* accept_loop_notify lines 81-90: register the subscriber, then greet it
accept_loop_notify_locks == { <<LN, UN>> \o send_system_status_locks }

\* start_queue_server lines 719-734: the two priming loads
start_queue_server_locks == <<LG, UG, LG, UG>>

\* stop_queue_server lines 785-803: the two flush loads
stop_queue_server_locks == <<LG, UG, LG, UG>>

\* stop_notify_server lines 143-149
stop_notify_server_locks == <<LN, UN>>

LockPaths(t) ==
    IF t = "player" THEN player_thread_locks
    ELSE IF t = "client" THEN serve_client_locks
    ELSE accept_loop_notify_locks

\* main (awg_server_raw_top.c lines 62-89): the notifier and the queue server
\* are started, the clients are served, the queue server and then the
\* notifier are stopped
LockPhases == <<"start", "serve", "stop_queue", "stop_notify", "done">>

MainLocks(phase) ==
    IF phase = "start" THEN start_queue_server_locks
    ELSE IF phase = "stop_queue" THEN stop_queue_server_locks
    ELSE stop_notify_server_locks

LockIdle(t) == lk.at[t] = Len(lk.prog[t])
LockOp(t) == lk.prog[t][lk.at[t] + 1]
LockHolders(m) == {t \in LockThreads : \E k \in 1..Len(lk.held[t]) : lk.held[t][k] = m}

InitLocks == InitWith(0)

\* A thread enters one of its functions.  The accept thread serves clients
\* between the priming and stop_queue_server, which joins it (line 776);
\* the player and the notifier accept thread run from the start.
LockEnter ==
    \E t \in {"player", "client", "notify"} :
      /\ LockIdle(t)
      /\ lk.phase # "done"
      /\ t = "client" => lk.phase = "serve"
      /\ \E p \in LockPaths(t) :
            lk' = [lk EXCEPT !.prog[t] = p, !.at[t] = 0]
      /\ UNCHANGED <<queueVars, dir, main, drv, codec>>

\* main enters the function of its phase
LockMainEnter ==
    /\ LockIdle("main") /\ ~lk.ran
    /\ lk.phase \in {"start", "stop_queue", "stop_notify"}
    /\ lk' = [lk EXCEPT !.prog["main"] = MainLocks(lk.phase), !.at["main"] = 0,
                        !.ran = TRUE]
    /\ UNCHANGED <<queueVars, dir, main, drv, codec>>

\* main goes on to its next phase; it leaves "serve" through the join of the
\* accept thread
LockMainAdvance ==
    /\ LockIdle("main")
    /\ \/ lk.phase = "serve" /\ LockIdle("client")
       \/ lk.phase \in {"start", "stop_queue", "stop_notify"} /\ lk.ran
    /\ lk' = [lk EXCEPT
                !.phase = IF lk.phase = "start" THEN "serve"
                          ELSE IF lk.phase = "serve" THEN "stop_queue"
                          ELSE IF lk.phase = "stop_queue" THEN "stop_notify"
                          ELSE "done",
                !.ran = FALSE]
    /\ UNCHANGED <<queueVars, dir, main, drv, codec>>

\* pthread_mutex_lock returns: the mutex was free
LockAcquire ==
    \E t \in LockThreads :
      /\ ~LockIdle(t)
      /\ LockOp(t)[1] = "lock"
      /\ LockHolders(LockOp(t)[2]) = {}
      /\ lk' = [lk EXCEPT !.held[t] = Append(@, LockOp(t)[2]),
                          !.at[t] = @ + 1]
      /\ UNCHANGED <<queueVars, dir, main, drv, codec>>

\* pthread_mutex_unlock
LockRelease ==
    \E t \in LockThreads :
      /\ ~LockIdle(t)
      /\ LockOp(t)[1] = "unlock"
      /\ lk' = [lk EXCEPT !.held[t] = SelectSeq(@, LAMBDA m : m # LockOp(t)[2]),
                          !.at[t] = @ + 1]
      /\ UNCHANGED <<queueVars, dir, main, drv, codec>>

NextLocks ==
    \/ LockEnter
    \/ LockMainEnter
    \/ LockMainAdvance
    \/ LockAcquire
    \/ LockRelease

SpecLocks == InitLocks /\ [][NextLocks]_vars

\* The same as Spec with the scheduler fair to the player thread and to the
\* steps the preload handler takes on its own; clients and the stop signal
\* owe nothing.
PlayerStep ==
    \/ PlayerLoop
    \/ PlayerTickIdle
    \/ PlayerTickFrame
    \/ PlayerTickSwitch
    \/ PlayerTickStop
    \/ PlayerSetIdle
    \/ PlayerNotify
    \/ PlayerRelock
    \/ PlayerSend

ClientOwnStep ==
    \/ ClientBeginSend
    \/ ClientReadySend
    \/ ClientResetLoad
    \/ ClientResetFinal
    \/ ClientResetSend
    \/ ClientCancel
    \/ ClientCancelSend
    \/ ClientClose

SpecFair == Spec /\ WF_vars(PlayerStep) /\ WF_vars(ClientOwnStep)

\* ------------------------------------------------------------ properties
\* A step of the player thread that starts a tick
PlayerTicks == pl.pc = "sleeping" /\ pl' # pl

\* A step in which the player picks a frame for awg_send_words32
PlayerPicks == pl.pc # "send" /\ pl'.pc = "send"

\* A step in which the player frees list i at the end of its playback
PlayerFrees(i) ==
    /\ pl.pc = "sleeping" /\ pl'.pc \in {"sw_set", "stop_set"}
    /\ pl'.fin = i

IsEmptyList(L) ==
    /\ L.loaded_frames = 0 /\ L.total_frames = 0 /\ ~L.ready

\* C1: a list that became READY by its total_frames-th PUSH and has not been
\* the target of BEGIN, RESET or shutdown since has its frames handed to
\* awg_send_words32 in push order, frame k being the k-th one pushed with the
\* words as pushed, and all total_frames of them have been handed over when
\* the player clears the list.
C1_PushOrderPlayed ==
    [][\A i \in Lists : clean[i] =>
          /\ (PlayerPicks /\ pl'.src = i) =>
                /\ pl'.idx = nsent[i]
                /\ nsent[i] < Len(pushed[i])
                /\ pl'.w = pushed[i][nsent[i] + 1]
          /\ (pl.pc = "send" /\ pl.src = i /\ pl.idx < nsent[i] /\ pl'.pc = "top") =>
                mmio' = pushed[i][pl.idx + 1]
          /\ PlayerFrees(i) =>
                /\ nsent[i] = list[i].total_frames
                /\ nsent[i] = Len(pushed[i])]_vars

\* C2: the tick that finds the current list at its end while the other list
\* is READY swaps cur and next, sets cur_frame to 0 and dispatches frame 0 of
\* the new current list before the tick is over.
C2_SwitchDispatchesSameTick ==
    [][/\ (PlayerTicks /\ playing /\ PlayerExhausted /\ list[next_list].ready) =>
             /\ cur_list' = next_list
             /\ next_list' = cur_list
             /\ cur_frame' = 0
             /\ pl'.pc = "sw_set"
       /\ (pl.pc = "relock" /\ pl'.pc # "relock") =>
             /\ pl'.pc = "send"
             /\ pl'.src = pl.cl
             /\ pl'.idx = 0]_vars

\* C3: while the player is between picking a frame and the return of
\* awg_send_words32 no other thread frees or moves the word buffer the
\* picked frame lies in.
C3_BufferStableDuringSend == ~(pl.pc = "send" /\ pl.dangling)

\* A step in which BEGIN or PUSH changes list i
PreloadModifies(i) ==
    /\ cli.pc = "cmd" /\ cli'.pc \in {"cmd", "b_send", "p_send"}
    /\ list'[i] # list[i]

\* C4: BEGIN and PUSH only change a list that is not the one being played and
\* whose status is IDLE or LOADING, and PUSH never appends to a READY list.
C4_PreloadNeverTouchesPlayingList ==
    [][\A i \in Lists : PreloadModifies(i) =>
          /\ ~(playing /\ cur_list = i)
          /\ g_list_status[i] \in {LIST_IDLE, LIST_LOADING}
          /\ (list'[i].loaded_frames > list[i].loaded_frames => ~list[i].ready)]_vars

\* C5: with a fair player, a list that is READY is in the end drained and
\* freed, unless shutdown has begun (BEGIN and RESET on it free it as well).
C5_ReadyListDrains ==
    \A i \in Lists : [](list[i].ready => <>(~list[i].ready \/ g_stop_queue))

\* A step that ends the critical section in which PUSH or END made a list READY
ReadySectionEnds ==
    /\ cli.pc \in {"p_send", "e_send"} /\ cli'.pc = "cmd"
    /\ cli.madeReady

\* C6: the critical section of G.mtx in which a list becomes READY starts
\* playback on that list with the other list as next and cur_frame 0 when
\* playing is false, and leaves cur_list, next_list and cur_frame alone when
\* playing is true.
C6_AutoStart ==
    [][/\ (cli'.pc \in {"p_send", "e_send"} /\ cli'.madeReady) =>
             /\ mtx' = "client"
             /\ list'[cli'.id].ready
             /\ UNCHANGED <<playing, cur_list, next_list, cur_frame>>
       /\ ReadySectionEnds =>
             /\ mtx = "client" /\ mtx' = "free"
             /\ IF ~playing
                THEN /\ playing'
                     /\ cur_list' = cli.id
                     /\ next_list' = 1 - cli.id
                     /\ cur_frame' = 0
                ELSE UNCHANGED <<playing, cur_list, next_list, cur_frame>>]_vars

\* Auto-start happened: a list the client filled is current at frame 0 and
\* no tick has passed since.
C6_Witness ==
    /\ playing /\ cur_frame = 0 /\ clean[cur_list] /\ nsent[cur_list] = 0
    /\ cli.pc = "cmd" /\ pl.pc = "sleeping" /\ main = "running"
    /\ IsEmptyList(list[1 - cur_list])

\* C7: the tick that finds the current list at its end while the other list
\* is not READY sets playing to false, frees the finished list and dispatches
\* nothing; the player then sets the finished list's status to IDLE and
\* calls send_status_update for it; playing becomes true again only in a
\* critical section that makes a list READY.
C7_StopWhenNothingNext ==
    [][/\ (PlayerTicks /\ playing /\ PlayerExhausted /\ ~list[next_list].ready) =>
             /\ playing' = FALSE
             /\ IsEmptyList(list'[cur_list])
             /\ list'[cur_list].words_cap = 0
             /\ pl'.pc = "stop_set" /\ pl'.fin = cur_list
             /\ mmio' = mmio
       /\ (pl.pc = "stop_set" /\ pl' # pl) =>
             /\ g_list_status'[pl.fin] = LIST_IDLE
             /\ pl'.pc = "stop_send" /\ pl'.fin = pl.fin
       /\ (pl.pc = "stop_send" /\ pl' # pl) =>
             /\ pl'.pc \in {"sleeping", "exited"}
             /\ mmio' = mmio
             /\ (g_notify_fd /\ subAlive /\ g_list_status[pl.fin] # last_sent[pl.fin]
                   => last_sent'[pl.fin] = g_list_status[pl.fin])
       /\ (~playing /\ playing') =>
             \E i \in Lists :
                /\ list'[i].ready
                /\ \/ ~list[i].ready
                   \/ cli.pc \in {"p_send", "e_send"} /\ cli.madeReady /\ cli.id = i]_vars

\* The player has played a list to its end, has stopped and freed it and has
\* set its status to IDLE.
C7_Witness ==
    /\ pl.pc = "stop_send" /\ pl.fin = cur_list
    /\ ~playing /\ cur_frame > 0
    /\ IsEmptyList(list[cur_list])
    /\ g_list_status[cur_list] = LIST_IDLE

\* The step that completes do_reset for 'Z'
ResetCompletes == cli.pc = "r_send1" /\ cli'.pc = "cmd"

\* What C8 promises at the completion of do_reset
ResetPost ==
    /\ \A i \in Lists : IsEmptyList(list'[i]) /\ g_list_status'[i] = LIST_IDLE
    /\ ~playing'
    /\ silenced

C9_NoIdleLineBeforeDrain ==
    [][(cli.pc = "r_load1" /\ silenced /\ npc' = npc) =>
          \A i \in Lists :
             ~(last_sent'[i] = LIST_IDLE /\ last_sent[i] # LIST_IDLE)]_vars

\* C10: start_queue_server loads the silence list into L1 only after all
\* FlushFrames silence frames of L0 were dispatched, and creates the
\* listening socket only after all those of L1 were dispatched too.
C10_StartupSilenceBeforeListen ==
    [][/\ (main = "prime1" /\ main' = "listen") => primeCount >= FlushFrames
       /\ (main = "listen" /\ main' = "running") => primeCount = 2 * FlushFrames]_vars

\* C11: stop_queue_server loads the silence list into L1 only after all
\* FlushFrames silence frames of L0 were dispatched, and joins the player
\* only after all those of L1 were dispatched too.
C11_ShutdownSilencePlayed ==
    [][/\ (main = "flush1" /\ main' = "join_player") => primeCount >= FlushFrames
       /\ (main = "join_player" /\ main' = "stopped") => primeCount = 2 * FlushFrames]_vars

\* C12: stop_queue_server is never left in a wait that nothing can end: with
\* the player thread and the accept thread gone, main is not waiting for a
\* list status that is not IDLE.
C12_StopNeverBlocks ==
    ~(/\ pl.pc = "exited" /\ cli.pc = "exited"
      /\ \/ main = "flush1" /\ g_list_status[0] # LIST_IDLE
         \/ main = "join_player" /\ g_list_status[1] # LIST_IDLE)

\* The step in which serve_client returns
ServeClientReturns == cli.pc = "drop" /\ cli'.pc \in {"accept", "exited"}

\* C13: when serve_client has returned, whatever ended the connection, no
\* list is left with status LOADING.
C13_NoLoadingAfterDrop ==
    [][ServeClientReturns =>
          \A i \in Lists : g_list_status'[i] # LIST_LOADING]_vars

\* A step of the connection drop: the rejection of a command, or a step of
\* the clean-up that follows
DropStep ==
    \/ cli.pc = "cmd" /\ cli'.pc = "drop"
    \/ cli.pc \in {"drop", "c_send"} /\ cli' # cli

\* C14: a connection drop appends no frame, leaves every READY list and
\* playing, cur_list, next_list and cur_frame as they are, and changes only
\* lists whose status is LOADING.
C14_DropTouchesOnlyLoading ==
    [][DropStep =>
          /\ UNCHANGED <<playing, cur_list, next_list, cur_frame>>
          /\ \A i \in Lists :
                /\ list'[i].loaded_frames <= list[i].loaded_frames
                /\ list[i].ready => list'[i] = list[i]
                /\ list'[i] # list[i] => g_list_status[i] = LIST_LOADING]_vars

\* A PUSH that C15 says is rejected
PushRejected(inp) ==
    LET count == inp.count[1] * 256 + inp.count[2]
    IN \/ count = 0
       \/ count > 64
       \/ inp.id > 1
       \/ ~list[inp.id].meta
       \/ list[inp.id].loaded_frames >= list[inp.id].total_frames

\* C15: a PUSH with count 0, count above 64, list_id above 1, a target list
\* without BEGIN or a target list that is full drops the connection and
\* leaves both lists as they are.
C15_BadPushRejected ==
    [][(CanRead /\ budget' # budget) =>
          \A inp \in {x \in PushInputs : PushRejected(x)} :
             CmdPush(inp) =>
                /\ cli'.pc = "drop"
                /\ list' = list
                /\ pl' = pl]_vars

\* A PUSH has been rejected while list 0 is full and list 1 has had no BEGIN.
C15_Witness ==
    /\ cli.pc = "drop" /\ cli.op = "P"
    /\ list[0].ready /\ list[0].loaded_frames = list[0].total_frames
    /\ ~list[1].meta

\* A BEGIN that C16 says is rejected
BeginRejected(inp) ==
    LET n == ((inp[2][1] * 256 + inp[2][2]) * 256 + inp[2][3]) * 256 + inp[2][4]
    IN \/ inp[1] > 1
       \/ n = 0
       \/ n > 2000000

\* C16: a BEGIN with list_id above 1, total_frames 0 or total_frames above
\* 2,000,000 drops the connection, clears and allocates no list, and
\* publishes no LOADING status.
C16_BadBeginRejected ==
    [][(CanRead /\ budget' # budget) =>
          \A inp \in {x \in BeginInputs : BeginRejected(x)} :
             CmdBegin(inp) =>
                /\ cli'.pc = "drop"
                /\ list' = list
                /\ g_list_status' = g_list_status
                /\ g_loading_in_progress' = g_loading_in_progress
                /\ last_sent' = last_sent]_vars

\* A BEGIN has been rejected with no list loading and none LOADING.
C16_Witness ==
    /\ cli.pc = "drop" /\ cli.op = "B"
    /\ \A i \in Lists :
          ~g_loading_in_progress[i] /\ g_list_status[i] # LIST_LOADING

\* The client thread is about to call send_status_update
ClientAtSend == cli.pc \in {"b_send", "p_send", "e_send", "c_send", "r_send0", "r_send1"}

\* C17: no thread performs a notifier send while it holds G.mtx.
C17_NoSendUnderStoreMutex == ~(mtx = "client" /\ ClientAtSend)

\* C18: at most one thread is inside awg_send_words32 or awg_zero_output at
\* any time: the player, a direct-server client thread, or main zeroing the
\* outputs.
C18_OneMmioWriter ==
    /\ ~(pl.pc = "send" /\ dir = "send")
    /\ ~(main = "zero" /\ dir = "send")
    /\ ~(main = "zero" /\ pl.pc = "send")

\* C19: for both lists 0 <= loaded_frames <= total_frames, and every loaded
\* frame has 1 <= count <= 64 and offset + count <= words_used <= words_cap.
C19_ListWellFormed ==
    \A i \in Lists :
       LET L == list[i]
       IN /\ 0 <= L.loaded_frames
          /\ L.loaded_frames <= L.total_frames
          /\ L.words_used <= L.words_cap
          /\ \A k \in 1..L.loaded_frames :
                /\ 1 <= L.counts[k]
                /\ L.counts[k] <= MAX_WORDS_PER_FRAME
                /\ L.offsets[k] + L.counts[k] <= L.words_used

\* A list holds two pushed frames of different lengths.
C19_Witness ==
    \E i \in Lists :
       /\ list[i].loaded_frames = 2
       /\ list[i].counts[1] # list[i].counts[2]

\* C20: a list whose published status is IDLE has offsets, counts and words
\* freed and total_frames = loaded_frames = 0.
C20_IdleListIsFreed ==
    \A i \in Lists :
       g_list_status[i] = LIST_IDLE =>
          /\ ~list[i].meta
          /\ list[i].words_cap = 0
          /\ list[i].total_frames = 0
          /\ list[i].loaded_frames = 0

\* C21: a list's published status is LOADING exactly while its
\* g_loading_in_progress flag is set.
C21_LoadingFlagAgreesWithStatus ==
    \A i \in Lists : g_loading_in_progress[i] <=> g_list_status[i] = LIST_LOADING

\* C22: cur_list and next_list are distinct values in {0,1} in every state
\* another thread can observe.
C22_CurNextDistinct ==
    /\ cur_list \in Lists
    /\ next_list \in Lists
    /\ next_list = 1 - cur_list

\* The player has switched from list 1 to list 0.
C22_Witness == pl.pc = "sw_set" /\ pl.fin = 1 /\ cur_list = 0

\* A step in which some thread calls send_status_update(id)
SendsFor(id) ==
    \/ pl.pc \in {"sw_send", "stop_send"} /\ pl' # pl /\ pl.fin = id
    \/ cli.pc \in {"b_send", "p_send", "e_send", "c_send"} /\ cli' # cli /\ cli.id = id
    \/ cli.pc = (IF id = 0 THEN "r_send0" ELSE "r_send1") /\ cli' # cli
    \/ npc = (IF id = 0 THEN "n_send0" ELSE "n_send1") /\ npc' # npc

StatusFollowsStore(i) ==
    /\ g_list_status'[i] = LIST_LOADING => list'[i].meta
    /\ g_list_status'[i] = LIST_READY => list'[i].ready
    /\ g_list_status'[i] = LIST_IDLE =>
          \/ list'[i] = EmptyList
          \/ pl.pc \in {"sw_set", "stop_set"} /\ pl' # pl /\ pl.fin = i

C28_NewClientSupersedes ==
    (g_active_client_fd /\ g_listen_queue /\ ~g_stop_queue) => ENABLED ClientConnect

\* C29: a tick hands at most one frame to awg_send_words32 (the player
\* enters the call only from the start of a tick or right after a switch in
\* the same tick, and leaves it for the top of the loop); the frame picked is
\* frame cur_frame of the current list with its counts[cur_frame] words; the
\* words the call writes are the words of that frame; a tick that finds
\* playing false calls nothing.
C29_OneWholeFramePerTick ==
    [][/\ PlayerPicks =>
             /\ pl.pc \in {"sleeping", "relock"}
             /\ pl'.src = cur_list
             /\ pl'.idx = cur_frame /\ cur_frame' = cur_frame + 1
             /\ pl'.idx < list[cur_list].loaded_frames
             /\ Len(pl'.w) = list[cur_list].counts[cur_frame + 1]
             /\ pl'.w = FrameWords(list[cur_list], cur_frame)
       /\ (pl.pc = "send" /\ pl'.pc # pl.pc) => (pl'.pc = "top" /\ mmio' = pl.w)
       /\ (pl.pc = "top" /\ pl'.pc # pl.pc) => pl'.pc \in {"sleeping", "exited"}
       /\ (pl.pc = "relock" /\ pl'.pc # pl.pc) => pl'.pc \in {"send", "sleeping", "exited"}
       /\ mmio' # mmio => (pl.pc = "send" \/ pl.pc = "top")
       /\ (pl.pc = "sleeping" /\ ~playing /\ pl'.pc # pl.pc) =>
             (pl'.pc = "exited" /\ mmio' = mmio)]_vars

\* A step in which the safety sequencer loads a silence list: the startup
\* priming, a phase of RESET, or the shutdown flush.
SequencerLoads ==
    \/ main \in {"prime0", "prime1", "flush0", "flush1"} /\ main' # main
    \/ cli.pc \in {"r_load0", "r_load1"} /\ cli'.pc # cli.pc

\* C30: every frame of a list the safety sequencer loads at startup, RESET
\* and shutdown has 17 words: GAIN with payload 0 for channel 0 tones 0..7,
\* then channel 1 tones 0..7, then one COMMIT; it is word for word what
\* awg_zero_output sends.
C30_SequencerLoadsSilenceFrame ==
    [][SequencerLoads =>
          LET L == list'[cur_list']
          IN /\ L.loaded_frames > 0
             /\ \A f \in 0..(L.loaded_frames - 1) :
                   /\ L.counts[f + 1] = 17
                   /\ FrameWords(L, f) = awg_zero_output_words
                   /\ \A k \in 1..16 :
                         FrameWords(L, f)[k] =
                            MAKE_GAIN_WORD((k - 1) \div 8, (k - 1) % 8, 0)
                   /\ FrameWords(L, f)[17] = MAKE_COMMIT_WORD]_vars

\* The lines of the one-preload scenario in their order, each as the list
\* it is about, the value the subscriber had before and the value it gets
LineOrder ==
    << <<0, UNKNOWN, LIST_IDLE>>, <<1, UNKNOWN, LIST_IDLE>>,
       <<0, LIST_IDLE, LIST_LOADING>>, <<0, LIST_LOADING, LIST_READY>>,
       <<0, LIST_READY, LIST_IDLE>> >>

\* C26: in the one-preload scenario every line the subscriber gets is the
\* next one of LIST0:IDLE, LIST1:IDLE, LIST0:LOADING, LIST0:READY,
\* LIST0:IDLE: a line for list id changes what the subscriber has for
\* <<list 0, list 1>> exactly as one entry of LineOrder does, LIST1:IDLE
\* comes after LIST0:IDLE and LIST0:LOADING after LIST1:IDLE, and the last
\* LIST0:IDLE comes when the frames pushed have been dispatched.
C26_OnePreloadLines ==
    [][\A id \in Lists :
          (last_sent'[id] # last_sent[id] /\ npc # "n_reg") =>
             /\ <<id, last_sent[id], last_sent'[id]>> \in
                   {LineOrder[k] : k \in 1..Len(LineOrder)}
             /\ id = 1 => last_sent[0] = LIST_IDLE
             /\ last_sent'[id] = LIST_LOADING => last_sent[1] = LIST_IDLE
             /\ (last_sent[id] = LIST_READY /\ last_sent'[id] = LIST_IDLE) =>
                   ~playing]_vars

\* A client is loading list i: BEGIN has been taken and the list is not
\* yet ready.
ClientIsLoading(i) ==
    g_loading_in_progress[i] /\ list[i].meta /\ ~list[i].ready

\* C37: the player's end-of-list and list-switch handling never clears a
\* list that a client is loading, never stores IDLE for it and never sends
\* its IDLE to the subscriber.
C37_PlayerSparesLoadingList ==
    [][\A i \in Lists :
          ClientIsLoading(i) =>
             /\ (pl.pc = "sleeping" /\ pl'.pc \in {"sw_set", "stop_set"}) =>
                   pl'.fin # i
             /\ (pl.pc \in {"sw_set", "stop_set"} /\ pl'.pc # pl.pc) =>
                   pl.fin # i
             /\ (pl.pc \in {"sw_send", "stop_send"} /\ pl'.pc # pl.pc) =>
                   pl.fin # i]_vars

\* C38: with the store mutex free and neither a RESET nor a shutdown in
\* progress, a list with ready = true is being played or waits to be played
\* next: playing is true and the list is the current or the next list.
C38_NoReadyListStranded ==
    (mtx = "free" /\ cli.pc \notin ResetPcs /\ ~g_stop_queue) =>
       \A i \in Lists :
          list[i].ready => (playing /\ (i = cur_list \/ i = next_list))

\* A list a client has filled is ready and is the one being played, the
\* other list being empty.
C38_Witness ==
    /\ mtx = "free" /\ cli.pc = "cmd" /\ ~g_stop_queue /\ main = "running"
    /\ playing /\ list[cur_list].ready /\ pushed[cur_list] # <<>>
    /\ ~list[next_list].ready

\* C39: when the player reads offsets[cur_frame] and counts[cur_frame], at
\* the start of a tick or after the re-lock that follows a switch, the list
\* it reads is the current list, cur_frame is below its loaded_frames, its
\* metadata arrays and word buffer are allocated and its ready flag is set.
C39_PlayerReadsValidFrame ==
    [][PlayerPicks =>
          LET L == list[pl'.src]
          IN /\ pl'.src = cur_list
             /\ cur_frame < L.loaded_frames
             /\ L.meta
             /\ L.words_cap > 0
             /\ L.ready]_vars

\* C31: an INDEX or GAIN word holds cmd (1 or 2) in bits 31:28, ch in bit
\* 27, tone in bits 26:24, zero in bits 23:20 and the payload in bits 19:0,
\* so the fields read back are the inputs; COMMIT is 0xF0000000; the macros
\* of the queue server, the functions of the MMIO core and those of the test
\* program give the same word.
C31_WordCodec ==
    codec.pc = "packed" =>
       /\ codec.cmd \in {1, 2} =>
             /\ WordCmd(codec.q) = codec.cmd
             /\ WordCh(codec.q) = codec.ch
             /\ WordTone(codec.q) = codec.tone
             /\ WordReserved(codec.q) = 0
             /\ WordPayload(codec.q) = codec.data20
       /\ codec.cmd = 15 => codec.q = <<240, 0, 0, 0>>
       /\ codec.c = codec.q
       /\ codec.t = codec.q

\* A GAIN word for channel 1, tone 7 with all 20 payload bits set
C31_Witness ==
    /\ codec.pc = "packed" /\ codec.cmd = 2 /\ codec.ch = 1 /\ codec.tone = 7
    /\ codec.data20 = 1048575
    /\ codec.q = <<47, 15, 255, 255>>

\* What a call that sends count words of ws writes, in order: per word the
\* data register once, then WEN active, then WEN idle
RECURSIVE WordWrites(_, _, _)
WordWrites(ws, count, wen0) ==
    IF count = 0 THEN <<>>
    ELSE WordWrites(ws, count - 1, wen0)
            \o << <<"DATA", ws[count]>>,
                  <<"WEN", SetWenBit(wen0)>>,
                  <<"WEN", ClearWenBit(wen0)>> >>

\* C34: a call returns non-zero exactly when the driver is not mapped, the
\* pointer is null or count <= 0, and has then written nothing; otherwise it
\* has written, for each of the count words in order, the data register
\* once, then WEN active and WEN idle; WEN is idle whenever a call has
\* returned and the other bits of its register are as they were.
C34_SendAllOrNothing ==
    /\ drv.pc \in {"idle", "ret"} => WenIdle(drv.wen)
    /\ drv.pc = "ret" =>
          /\ drv.rc # 0 <=> (~drv.init \/ drv.null \/ drv.count <= 0)
          /\ drv.rc # 0 => (drv.log = <<>> /\ drv.data = <<>>)
          /\ drv.rc = 0 =>
                /\ drv.i = drv.count
                /\ drv.wen = drv.wen0
                /\ drv.log = WordWrites(drv.words, drv.count, drv.wen0)

\* A call with two words has returned 0 on a WEN register with another bit set
C34_Witness ==
    /\ drv.pc = "ret" /\ drv.rc = 0 /\ drv.count = 2 /\ drv.wen = 2
    /\ Len(drv.log) = 6

\* C33: awg_zero_output is entered once, from the end of the stop
\* functions, with the player thread exited, the queue accept thread exited,
\* the listening socket closed and no direct-server client thread left;
\* awg_close comes after it and nothing comes after awg_close; once the
\* registers are unmapped no thread is inside the write loop of
\* awg_send_words32.
C33_ZeroOnceThenClose ==
    [][/\ (main # "zero" /\ main' = "zero") =>
             /\ main = "stopped"
             /\ pl.pc = "exited" /\ cli.pc = "exited"
             /\ ~g_listen_queue /\ g_stop_queue
             /\ dir = "off"
       /\ (main # "closed" /\ main' = "closed") => main = "zero"
       /\ main = "closed" => main' = "closed"
       /\ main' = "closed" =>
             /\ dir' # "send"
             /\ mmio' = mmio]_vars

\* C36: with the player thread scheduled fairly, a RESET that has begun
\* always finishes: both waits of do_reset for a silence list to become IDLE
\* end and the handler returns, whatever the player was doing when the 'Z'
\* arrived.
C36_ResetCompletes ==
    (cli.pc \in ResetPcs) ~> (cli.pc \notin ResetPcs)

\* A RESET that arrived while the player was between the unlock and the
\* relock of a list switch or of an end-of-list stop is waiting for list 1.
C36_Witness ==
    /\ cli.pc = "r_final" /\ ~reset_wait_over(1) /\ silenced
    /\ pl.pc \in {"sw_set", "sw_send", "stop_set", "stop_send", "relock"}
    /\ ~g_stop_queue

\* Thread t is inside pthread_mutex_lock(m) and m is held
LockWaits(t, m) ==
    /\ ~LockIdle(t)
    /\ LockOp(t) = <<"lock", m>>
    /\ LockHolders(m) # {}

\* C35: the two mutexes cannot deadlock: a thread that holds both took
\* G.mtx first, no thread waits for G.mtx while it holds the notifier mutex,
\* no thread waits for a mutex it holds itself or that is held by a thread
\* waiting for a mutex of the first, and a thread unlocks only what it holds.
C35_NoMutexDeadlock ==
    /\ \A m \in {"g", "n"} : Cardinality(LockHolders(m)) <= 1
    /\ \A t \in LockThreads :
          /\ Len(lk.held[t]) = 2 => lk.held[t] = <<"g", "n">>
          /\ LockWaits(t, "g") => lk.held[t] = <<>>
          /\ (~LockIdle(t) /\ LockOp(t)[1] = "unlock") => t \in LockHolders(LockOp(t)[2])
          /\ LockIdle(t) => lk.held[t] = <<>>
    /\ \A t, u \in LockThreads : \A m, k \in {"g", "n"} :
          ~(LockWaits(t, m) /\ u \in LockHolders(m)
              /\ LockWaits(u, k) /\ t \in LockHolders(k))

\* The preload handler holds both mutexes while the player waits for G.mtx
\* and the notifier accept thread waits for the notifier mutex.
C35_Witness ==
    /\ lk.held["client"] = <<"g", "n">>
    /\ LockWaits("player", "g")
    /\ LockWaits("notify", "n")

====
